---- MODULE Spec2Model ----
(***************************************************************************)
(* Model of react-native-wifi-reborn:                                      *)
(*   - the JS wrapper's IoT helpers (connectToIoTNetwork,                  *)
(*     disconnectFromIoTNetwork, isIoTNetworkBound), in the two versions   *)
(*     of index.ts the repository carries;                                 *)
(*   - the iOS native module WifiManager (getCurrentWifiSSID, the connect  *)
(*     variants, applyConfiguration, verifyConnection, parseError and the  *)
(*     CLLocationManager delegate).                                        *)
(* Promises are modelled by the position (pc) of each call: one action     *)
(* per continuation, from one await / completion handler to the next.      *)
(***************************************************************************)
EXTENDS Integers, Sequences, FiniteSets, TLC

(***************************************************************************)
(* Bounds of the model.                                                    *)
(***************************************************************************)
\* native call slots (each slot carries one call of the native module)
NumCalls == 2
\* largest maxRetries the verification-only specification draws
MaxN == 3

(***************************************************************************)
(* Network identities.  An SSID is a sequence of characters; NoSSID is     *)
(* Swift's nil / the absent identity.                                      *)
(***************************************************************************)
NoSSID == <<>>

\* the identities the radio may report: equal to a target, differing in
\* case only, extending it, containing it after the first character, and
\* unrelated
SSIDs == { <<"a">>, <<"A">>, <<"a", "b">>, <<"b", "a">>, <<"b">> }

\* the identities callers ask for
Targets == { <<"a">>, <<"b">> }

lowerChar(ch) == CASE ch = "A" -> "a" [] ch = "B" -> "b" [] OTHER -> ch

lowercased(s) == [k \in 1..Len(s) |-> lowerChar(s[k])]

hasPrefix(s, p) == Len(p) <= Len(s) /\ SubSeq(s, 1, Len(p)) = p

includes(s, p) ==
    \E off \in 0..(Len(s) - Len(p)) : SubSeq(s, off + 1, off + Len(p)) = p


(***************************************************************************)
(* State.                                                                  *)
(***************************************************************************)
VARIABLES
    \* --- environment -----------------------------------------------------
    currentSSID,            \* identity the radio reports now (NoSSID: none)
    authStatus,             \* CLLocationManager.authorizationStatus()
    \* --- JS wrapper (index.ts) -------------------------------------------
    platform,               \* Platform.OS
    version,                \* which index.ts is loaded: "src" or "p4"
    isIoTNetworkBound,      \* module-level flag of index.ts
    adapterBound,           \* whether the adapter really binds app traffic
    iot,                    \* wrapper calls: slot -> record
    \* --- iOS native module (WifiManager) ---------------------------------
    pendingResolve,         \* slot whose resolve block is parked (0: nil)
    pendingReject,          \* slot whose reject block is parked (0: nil)
    isWaitingForPermission,
    calls,                  \* native calls: slot -> record
    verifyN                 \* maxRetries drawn by the verification-only spec

envVars == <<currentSSID, authStatus>>
wrapperVars == <<platform, version, isIoTNetworkBound, adapterBound, iot>>
nativeVars == <<pendingResolve, pendingReject, isWaitingForPermission, calls>>
vars == <<currentSSID, authStatus, platform, version, isIoTNetworkBound,
          adapterBound, iot, pendingResolve, pendingReject,
          isWaitingForPermission, calls, verifyN>>

Platforms == {"android", "ios"}
Versions == {"src", "p4"}
AuthStatuses == {"notDetermined", "restricted", "denied", "authorized"}

(***************************************************************************)
(* Adapter errors and their translation (WifiManager.parseError).          *)
(***************************************************************************)
\* NEHotspotConfigurationError cases an apply may complete with ("none": no
\* error); "internal", "pending" and "unknown" stand for the cases parseError
\* does not name
ApplyErrors ==
    {"none", "alreadyAssociated", "invalid", "invalidSSID", "invalidSSIDPrefix",
     "invalidWPAPassphrase", "invalidWEPPassphrase", "userDenied",
     "internal", "pending", "unknown"}

\* variant without the WEP case: an invalid WEP passphrase falls to default
parseError_noWEP(error) ==
    CASE error = "invalid" -> "invalid"
      [] error = "invalidSSID" -> "invalidSSID"
      [] error = "invalidSSIDPrefix" -> "invalidSSIDPrefix"
      [] error = "invalidWPAPassphrase" -> "invalidPassphrase"
      [] error = "userDenied" -> "userDenied"
      [] OTHER -> "unableToConnect"

parseError(error) ==
    CASE error = "invalid" -> "invalid"
      [] error = "invalidSSID" -> "invalidSSID"
      [] error = "invalidSSIDPrefix" -> "invalidSSIDPrefix"
      [] error \in {"invalidWPAPassphrase", "invalidWEPPassphrase"} -> "invalidPassphrase"
      [] error = "userDenied" -> "userDenied"
      [] OTHER -> "unableToConnect"

\* code a native connect rejects with once the configuration was built: the
\* translated apply error, or unableToConnect when the apply succeeded
\* ("none") and the identity poll ran out
connectRejection(error) ==
    IF error = "none" THEN "unableToConnect" ELSE parseError(error)

(***************************************************************************)
(* JS wrapper: the IoT helpers of index.ts.                                *)
(***************************************************************************)
\* wrapper call slots; a slot is reused once its call has settled
IoTCalls == {1, 2}

IoTIdle ==
    [pc |-> "idle", op |-> "none", ssid |-> NoSSID, usePrefix |-> FALSE,
     nativeOp |-> "none", outcome |-> "none", reason |-> "none",
     verified |-> FALSE, bindCalls |-> 0, bindOk |-> FALSE,
     unbindCalls |-> 0, unbindOk |-> FALSE, got |-> NoSSID,
     boundAtCall |-> FALSE, applyError |-> "none", code |-> "none"]

\* the promise of call i settles: await-continuations of the call are over
IoTSettle(r, outcome, reason) ==
    [r EXCEPT !.pc = "settled", !.outcome = outcome, !.reason = reason]

\* `connected` of connectToIoTNetwork
IoTConnected(usePrefix, cur, ssid) ==
    IF usePrefix
    THEN cur # NoSSID /\ includes(lowercased(cur), lowercased(ssid))
    ELSE cur = ssid

\* the slot is free: its previous call, if any, has returned to the caller
IoTReturn(i) ==
    /\ iot[i].pc = "settled"
    /\ iot' = [iot EXCEPT ![i] = IoTIdle]
    /\ UNCHANGED <<envVars, platform, version, isIoTNetworkBound,
                   adapterBound, nativeVars, verifyN>>

IoTFrame == UNCHANGED <<envVars, platform, version, nativeVars, verifyN>>

(***************************************************************************)
(* src/src/index.ts                                                        *)
(***************************************************************************)
\* which native connect method connectToIoTNetwork calls
Src_nativeConnect(os, usePrefix, password) ==
    IF os = "android" THEN "connectToProtectedWifiSSID"
    ELSE IF usePrefix
         THEN IF password # "" THEN "connectToProtectedSSIDPrefix"
                               ELSE "connectToSSIDPrefix"
         ELSE "connectToProtectedSSID"

\* connectToIoTNetwork is called; it runs up to its first await
Src_connectToIoTNetwork(i, ssid, password, usePrefix) ==
    /\ version = "src"
    /\ iot[i].pc = "idle"
    /\ iot' = [iot EXCEPT ![i] =
            [IoTIdle EXCEPT
                !.op = "connect", !.ssid = ssid, !.usePrefix = usePrefix,
                !.boundAtCall = isIoTNetworkBound,
                !.pc = IF platform = "android" THEN "remove" ELSE "connect",
                !.nativeOp = IF platform = "android" THEN "isRemoveWifiNetwork"
                             ELSE Src_nativeConnect(platform, usePrefix, password)]]
    /\ UNCHANGED <<isIoTNetworkBound, adapterBound>>
    /\ IoTFrame

\* isRemoveWifiNetwork settled; a rejection is swallowed by the catch
Src_afterRemove(i, ok) ==
    /\ version = "src"
    /\ iot[i].pc = "remove"
    /\ iot' = [iot EXCEPT ![i].pc = "connect",
                          ![i].nativeOp = Src_nativeConnect(platform, iot[i].usePrefix, "")]
    /\ UNCHANGED <<isIoTNetworkBound, adapterBound>>
    /\ IoTFrame

\* the native connect settled; a rejection propagates to the caller
Src_afterConnect(i, ok) ==
    /\ version = "src"
    /\ iot[i].pc = "connect"
    /\ \E error \in ApplyErrors \ {"alreadyAssociated"} :
          iot' = [iot EXCEPT ![i] =
            IF ~ok THEN IoTSettle([@ EXCEPT !.applyError = error,
                                            !.code = connectRejection(error)],
                                  "rejected", "connect")
            ELSE IF platform = "android"
                 THEN [@ EXCEPT !.pc = "bind", !.bindCalls = @ + 1]
                 ELSE [@ EXCEPT !.pc = "verify"]]
    /\ UNCHANGED <<isIoTNetworkBound, adapterBound>>
    /\ IoTFrame

\* forceWifiUsageWithOptions(true, ...) settled; a rejection is only logged
Src_afterBind(i, ok) ==
    /\ version = "src"
    /\ iot[i].pc = "bind"
    /\ iot' = [iot EXCEPT ![i].pc = "verify", ![i].bindOk = ok]
    /\ isIoTNetworkBound' = IF ok THEN TRUE ELSE isIoTNetworkBound
    /\ adapterBound' = IF ok THEN TRUE ELSE adapterBound
    /\ IoTFrame

\* getCurrentWifiSSID settled: it resolved with the current identity (ok) or
\* it rejected, and the rejection propagates to the caller
Src_afterVerify(i, ok) ==
    /\ version = "src"
    /\ iot[i].pc = "verify"
    /\ ok => currentSSID # NoSSID
    /\ iot' = [iot EXCEPT ![i] =
            IF ~ok THEN IoTSettle(@, "rejected", "verifyError")
            ELSE IF IoTConnected(@.usePrefix, currentSSID, @.ssid)
                 THEN IoTSettle([@ EXCEPT !.verified = TRUE, !.got = currentSSID],
                                "resolved", "none")
                 ELSE IF platform = "android" /\ isIoTNetworkBound
                      THEN [@ EXCEPT !.pc = "rollback", !.got = currentSSID,
                                     !.unbindCalls = @ + 1]
                      ELSE IoTSettle([@ EXCEPT !.got = currentSSID],
                                     "rejected", "notConnected")]
    /\ UNCHANGED <<isIoTNetworkBound, adapterBound>>
    /\ IoTFrame

\* variant without the try/catch around the rollback unbind: its rejection
\* is what the caller receives
Src_afterRollback_escalates(i, ok) ==
    /\ version = "src"
    /\ iot[i].pc = "rollback"
    /\ iot' = [iot EXCEPT ![i] =
            IoTSettle([@ EXCEPT !.unbindOk = ok], "rejected",
                      IF ok THEN "notConnected" ELSE "unbindError")]
    /\ isIoTNetworkBound' = IF ok THEN FALSE ELSE isIoTNetworkBound
    /\ adapterBound' = IF ok THEN FALSE ELSE adapterBound
    /\ IoTFrame

\* the rollback forceWifiUsageWithOptions(false, ...) settled; then throw
Src_afterRollback(i, ok) ==
    /\ version = "src"
    /\ iot[i].pc = "rollback"
    /\ iot' = [iot EXCEPT ![i] =
            IoTSettle([@ EXCEPT !.unbindOk = ok], "rejected", "notConnected")]
    /\ isIoTNetworkBound' = IF ok THEN FALSE ELSE isIoTNetworkBound
    /\ adapterBound' = IF ok THEN FALSE ELSE adapterBound
    /\ IoTFrame

\* disconnectFromIoTNetwork is called; it runs up to its first await
Src_disconnectFromIoTNetwork(i) ==
    /\ version = "src"
    /\ iot[i].pc = "idle"
    /\ iot' = [iot EXCEPT ![i] =
            IF platform = "android" /\ isIoTNetworkBound
            THEN [IoTIdle EXCEPT !.op = "disconnect", !.pc = "dunbind",
                                 !.unbindCalls = 1]
            ELSE IF platform = "android"
                 THEN [IoTIdle EXCEPT !.op = "disconnect", !.pc = "ddisconnect"]
                 ELSE IoTSettle([IoTIdle EXCEPT !.op = "disconnect"],
                                "resolved", "none")]
    /\ UNCHANGED <<isIoTNetworkBound, adapterBound>>
    /\ IoTFrame

\* the unbind of disconnectFromIoTNetwork settled; a rejection is only logged
Src_afterUnbind(i, ok) ==
    /\ version = "src"
    /\ iot[i].pc = "dunbind"
    /\ iot' = [iot EXCEPT ![i].pc = "ddisconnect", ![i].unbindOk = ok]
    /\ isIoTNetworkBound' = IF ok THEN FALSE ELSE isIoTNetworkBound
    /\ adapterBound' = IF ok THEN FALSE ELSE adapterBound
    /\ IoTFrame

\* NativeWifiManager.disconnect() settled; a rejection is only logged
Src_afterDisconnect(i, ok) ==
    /\ version = "src"
    /\ iot[i].pc = "ddisconnect"
    /\ iot' = [iot EXCEPT ![i] = IoTSettle(@, "resolved", "none")]
    /\ UNCHANGED <<isIoTNetworkBound, adapterBound>>
    /\ IoTFrame

(***************************************************************************)
(* src/unnamed/part_004: the other index.ts (join-once on iOS)             *)
(***************************************************************************)
P4_nativeConnect(os, usePrefix) ==
    IF os = "android" THEN "connectToProtectedWifiSSID"
    ELSE IF usePrefix THEN "connectToProtectedSSIDPrefixOnce"
                      ELSE "connectToProtectedSSIDOnce"

P4_connectToIoTNetwork(i, ssid, password, usePrefix) ==
    /\ version = "p4"
    /\ iot[i].pc = "idle"
    /\ iot' = [iot EXCEPT ![i] =
            [IoTIdle EXCEPT
                !.op = "connect", !.ssid = ssid, !.usePrefix = usePrefix,
                !.boundAtCall = isIoTNetworkBound,
                !.pc = "connect",
                !.nativeOp = P4_nativeConnect(platform, usePrefix)]]
    /\ UNCHANGED <<isIoTNetworkBound, adapterBound>>
    /\ IoTFrame

\* variant that resets the flag when the native connect rejects
P4_afterConnect_clearsFlag(i, ok) ==
    /\ version = "p4"
    /\ iot[i].pc = "connect"
    /\ \E error \in ApplyErrors \ {"alreadyAssociated"} :
          iot' = [iot EXCEPT ![i] =
            IF ~ok THEN IoTSettle([@ EXCEPT !.applyError = error,
                                            !.code = connectRejection(error)],
                                  "rejected", "connect")
            ELSE IF platform = "android"
                 THEN [@ EXCEPT !.pc = "bind", !.bindCalls = @ + 1]
                 ELSE [@ EXCEPT !.pc = "verify"]]
    /\ isIoTNetworkBound' =
            IF ok THEN (IF platform # "android" THEN TRUE ELSE isIoTNetworkBound)
                  ELSE FALSE
    /\ UNCHANGED adapterBound
    /\ IoTFrame

\* the native connect settled; off Android the flag is set without a bind
P4_afterConnect(i, ok) ==
    /\ version = "p4"
    /\ iot[i].pc = "connect"
    /\ \E error \in ApplyErrors \ {"alreadyAssociated"} :
          iot' = [iot EXCEPT ![i] =
            IF ~ok THEN IoTSettle([@ EXCEPT !.applyError = error,
                                            !.code = connectRejection(error)],
                                  "rejected", "connect")
            ELSE IF platform = "android"
                 THEN [@ EXCEPT !.pc = "bind", !.bindCalls = @ + 1]
                 ELSE [@ EXCEPT !.pc = "verify"]]
    /\ isIoTNetworkBound' =
            IF ok /\ platform # "android" THEN TRUE ELSE isIoTNetworkBound
    /\ UNCHANGED adapterBound
    /\ IoTFrame

\* variant without the try/catch around the bind call: a rejected bind
\* rejects connectToIoTNetwork
P4_afterBind_fatal(i, ok) ==
    /\ version = "p4"
    /\ iot[i].pc = "bind"
    /\ iot' = [iot EXCEPT ![i] =
            IF ok THEN [@ EXCEPT !.pc = "verify", !.bindOk = TRUE]
                  ELSE IoTSettle(@, "rejected", "bind")]
    /\ isIoTNetworkBound' = IF ok THEN TRUE ELSE isIoTNetworkBound
    /\ adapterBound' = IF ok THEN TRUE ELSE adapterBound
    /\ IoTFrame

P4_afterBind(i, ok) ==
    /\ version = "p4"
    /\ iot[i].pc = "bind"
    /\ iot' = [iot EXCEPT ![i].pc = "verify", ![i].bindOk = ok]
    /\ isIoTNetworkBound' = IF ok THEN TRUE ELSE isIoTNetworkBound
    /\ adapterBound' = IF ok THEN TRUE ELSE adapterBound
    /\ IoTFrame

\* getCurrentWifiSSID settled; on a mismatch without rollback the flag is
\* cleared before the throw
P4_afterVerify(i, ok) ==
    /\ version = "p4"
    /\ iot[i].pc = "verify"
    /\ ok => currentSSID # NoSSID
    /\ LET connected == ok /\ IoTConnected(iot[i].usePrefix, currentSSID, iot[i].ssid)
           rollback == ok /\ ~connected /\ platform = "android" /\ isIoTNetworkBound
       IN  /\ iot' = [iot EXCEPT ![i] =
                  IF ~ok THEN IoTSettle(@, "rejected", "verifyError")
                  ELSE IF connected
                       THEN IoTSettle([@ EXCEPT !.verified = TRUE, !.got = currentSSID],
                                      "resolved", "none")
                       ELSE IF rollback
                            THEN [@ EXCEPT !.pc = "rollback", !.got = currentSSID,
                                           !.unbindCalls = @ + 1]
                            ELSE IoTSettle([@ EXCEPT !.got = currentSSID],
                                           "rejected", "notConnected")]
           /\ isIoTNetworkBound' =
                  IF ok /\ ~connected /\ ~rollback THEN FALSE ELSE isIoTNetworkBound
    /\ UNCHANGED adapterBound
    /\ IoTFrame

\* the rollback unbind settled; the flag is cleared whatever the outcome
P4_afterRollback(i, ok) ==
    /\ version = "p4"
    /\ iot[i].pc = "rollback"
    /\ iot' = [iot EXCEPT ![i] =
            IoTSettle([@ EXCEPT !.unbindOk = ok], "rejected", "notConnected")]
    /\ isIoTNetworkBound' = FALSE
    /\ adapterBound' = IF ok THEN FALSE ELSE adapterBound
    /\ IoTFrame

P4_disconnectFromIoTNetwork(i) ==
    /\ version = "p4"
    /\ iot[i].pc = "idle"
    /\ iot' = [iot EXCEPT ![i] =
            IF platform = "android"
            THEN IF isIoTNetworkBound
                 THEN [IoTIdle EXCEPT !.op = "disconnect", !.pc = "dunbind",
                                      !.unbindCalls = 1]
                 ELSE [IoTIdle EXCEPT !.op = "disconnect", !.pc = "ddisconnect"]
            ELSE [IoTIdle EXCEPT !.op = "disconnect", !.pc = "dfetch"]]
    /\ UNCHANGED <<isIoTNetworkBound, adapterBound>>
    /\ IoTFrame

\* variant with unbind and disconnect in one try: a rejected unbind skips
\* the disconnect
P4_afterUnbind_skipsDisconnect(i, ok) ==
    /\ version = "p4"
    /\ iot[i].pc = "dunbind"
    /\ iot' = [iot EXCEPT ![i] =
            IF ok THEN [@ EXCEPT !.pc = "ddisconnect", !.unbindOk = TRUE]
                  ELSE IoTSettle(@, "resolved", "none")]
    /\ adapterBound' = IF ok THEN FALSE ELSE adapterBound
    /\ isIoTNetworkBound' = IF ok THEN isIoTNetworkBound ELSE FALSE
    /\ IoTFrame

\* the unbind settled; the flag is left for the end of the function
P4_afterUnbind(i, ok) ==
    /\ version = "p4"
    /\ iot[i].pc = "dunbind"
    /\ iot' = [iot EXCEPT ![i].pc = "ddisconnect", ![i].unbindOk = ok]
    /\ adapterBound' = IF ok THEN FALSE ELSE adapterBound
    /\ UNCHANGED isIoTNetworkBound
    /\ IoTFrame

P4_afterDisconnect(i, ok) ==
    /\ version = "p4"
    /\ iot[i].pc = "ddisconnect"
    /\ iot' = [iot EXCEPT ![i] = IoTSettle(@, "resolved", "none")]
    /\ isIoTNetworkBound' = FALSE
    /\ UNCHANGED adapterBound
    /\ IoTFrame

\* iOS: getCurrentWifiSSID settled inside the try; with an identity the
\* configuration is removed next, otherwise the function ends
P4_afterFetch(i, ok) ==
    /\ version = "p4"
    /\ iot[i].pc = "dfetch"
    /\ ok => currentSSID # NoSSID
    /\ iot' = [iot EXCEPT ![i] =
            IF ok THEN [@ EXCEPT !.pc = "dremove", !.got = currentSSID]
                  ELSE IoTSettle(@, "resolved", "none")]
    /\ isIoTNetworkBound' = IF ok THEN isIoTNetworkBound ELSE FALSE
    /\ UNCHANGED adapterBound
    /\ IoTFrame

\* iOS: disconnectFromSSID settled
P4_afterRemoveConfig(i, ok) ==
    /\ version = "p4"
    /\ iot[i].pc = "dremove"
    /\ iot' = [iot EXCEPT ![i] = IoTSettle(@, "resolved", "none")]
    /\ isIoTNetworkBound' = FALSE
    /\ UNCHANGED adapterBound
    /\ IoTFrame

(***************************************************************************)
(* Environment.                                                            *)
(***************************************************************************)
\* the radio associates with another network, or loses its link
NetworkChange(s) ==
    /\ s # currentSSID
    /\ currentSSID' = s
    /\ UNCHANGED <<authStatus, wrapperVars, nativeVars, verifyN>>

(***************************************************************************)
(* iOS native module: WifiManager.swift                                    *)
(***************************************************************************)
Calls == 1..NumCalls

\* 0 stands for nil in pendingResolve / pendingReject
NoCall == 0

\* the NEHotspotConfiguration a connect variant builds
NoConfig == [kind |-> "none", security |-> "none", joinOnce |-> FALSE]

\* variant that looks at isWEP before the passphrase
NEHotspotConfiguration_wepFirst(kind, passphrase, isWEP, joinOnce) ==
    [kind |-> kind,
     security |-> IF isWEP THEN "WEP"
                  ELSE IF passphrase = "" THEN "open" ELSE "WPA",
     joinOnce |-> joinOnce]

NEHotspotConfiguration(kind, passphrase, isWEP, joinOnce) ==
    [kind |-> kind,
     security |-> IF passphrase = "" THEN "open"
                  ELSE IF isWEP THEN "WEP" ELSE "WPA",
     joinOnce |-> joinOnce]

CallIdle ==
    [op |-> "none", pc |-> "idle",
     \* arguments of the connect call
     ssid |-> NoSSID, passphrase |-> "", isWEP |-> FALSE, joinOnce |-> FALSE,
     \* arguments of applyConfiguration / verifyConnection
     expectedSSID |-> NoSSID, isPrefix |-> FALSE, ssidPrefix |-> NoSSID,
     maxRetries |-> 0, currentRetry |-> 0,
     \* what the call has done so far
     config |-> NoConfig, applied |-> 0, applyError |-> "none",
     fetches |-> 0, timers |-> 0, matchedAt |-> 0,
     resolves |-> 0, rejects |-> 0, code |-> "none", value |-> NoSSID,
     \* statements of getCurrentWifiSSID still to run on the method queue
     park |-> "none"]

\* WifiError raw values
WifiErrors ==
    {"unavailableForOSVersion", "invalid", "invalidSSID", "invalidSSIDPrefix",
     "invalidPassphrase", "userDenied", "unableToConnect",
     "locationPermissionDenied", "locationPermissionRestricted",
     "didNotFindNetwork", "couldNotDetectSSID", "timeoutOccurred"}

\* the error codes index.ts exports for callers to compare against
GET_CURRENT_WIFI_SSID_ERRORS == {"CouldNotDetectSSID"}

CONNECT_ERRORS ==
    {"unavailableForOSVersion", "invalid", "invalidSSID", "invalidSSIDPrefix",
     "invalidPassphrase", "userDenied", "locationPermissionDenied",
     "unableToConnect", "locationPermissionRestricted",
     "locationPermissionMissing", "locationServicesOff", "couldNotEnableWifi",
     "couldNotScan", "couldNotDetectSSID", "didNotFindNetwork",
     "authenticationErrorOccurred", "android10ImmediatelyDroppedConnection",
     "timeoutOccurred"}

\* resolve(value) / reject(code, ...) of a call's promise blocks
resolve(r, value) ==
    [r EXCEPT !.pc = "done", !.resolves = @ + 1, !.value = value]

reject(r, code) ==
    [r EXCEPT !.pc = "done", !.rejects = @ + 1, !.code = code]

\* a slot takes one call; slots are taken in order
Fresh(c) ==
    /\ calls[c].pc = "idle"
    /\ c > 1 => calls[c - 1].pc # "idle"

\* a connect attempt that has not reached its terminal outcome
InFlight(r) ==
    r.pc \in {"precheck", "applying", "verifying", "retryWait"}

\* the record of a call as it is made
Called(op) ==
    [CallIdle EXCEPT !.op = op]

NativeFrame == UNCHANGED <<currentSSID, wrapperVars, verifyN>>

\* isConnected of verifyConnection
isConnected(isPrefix, ssidPrefix, expectedSSID, cur) ==
    IF isPrefix /\ ssidPrefix # NoSSID
    THEN cur # NoSSID /\ hasPrefix(lowercased(cur), lowercased(ssidPrefix))
    ELSE IF expectedSSID # NoSSID
         THEN cur = expectedSSID
         ELSE cur # NoSSID

\* a retry budget that allows one poll too many
retriesExhausted_late(currentRetry, maxRetries) == currentRetry > maxRetries

\* the retry budget of verifyConnection is used up
retriesExhausted(currentRetry, maxRetries) == currentRetry >= maxRetries

\* an apply handler that takes "already associated" for a failure
alreadyAssociated_never(error) == FALSE

\* "AlreadyAssociated is actually success"
alreadyAssociated(error) == error = "alreadyAssociated"

\* maxRetries applyConfiguration passes to verifyConnection
DefaultMaxRetries == 20

\* ----- getCurrentWifiSSID ------------------------------------------------
\* variant without the restricted check: a restricted permission is handled
\* like an undetermined one and the request is parked
getCurrentWifiSSID_restrictedWaits(c) ==
    /\ Fresh(c)
    /\ LET r == Called("getCurrentWifiSSID")
           hasPermission == authStatus = "authorized"
       IN  IF authStatus = "denied"
           THEN /\ calls' = [calls EXCEPT ![c] = reject(r, "locationPermissionDenied")]
                /\ UNCHANGED <<pendingResolve, pendingReject, isWaitingForPermission>>
           ELSE IF ~hasPermission
           THEN /\ pendingResolve' = c
                /\ pendingReject' = c
                /\ isWaitingForPermission' = TRUE
                /\ calls' = [calls EXCEPT ![c] = [r EXCEPT !.pc = "waitPerm"]]
           ELSE /\ calls' = [calls EXCEPT ![c] = [r EXCEPT !.pc = "fetching"]]
                /\ UNCHANGED <<pendingResolve, pendingReject, isWaitingForPermission>>
    /\ UNCHANGED authStatus
    /\ NativeFrame

getCurrentWifiSSID(c) ==
    /\ Fresh(c)
    /\ LET r == Called("getCurrentWifiSSID")
           hasPermission == authStatus = "authorized"
       IN  IF authStatus = "denied"
           THEN /\ calls' = [calls EXCEPT ![c] = reject(r, "locationPermissionDenied")]
                /\ UNCHANGED <<pendingResolve, pendingReject, isWaitingForPermission>>
           ELSE IF authStatus = "restricted"
           THEN /\ calls' = [calls EXCEPT ![c] = reject(r, "locationPermissionRestricted")]
                /\ UNCHANGED <<pendingResolve, pendingReject, isWaitingForPermission>>
           ELSE IF ~hasPermission
           THEN /\ pendingResolve' = c
                /\ pendingReject' = c
                /\ isWaitingForPermission' = TRUE
                /\ calls' = [calls EXCEPT ![c] = [r EXCEPT !.pc = "waitPerm"]]
           ELSE /\ calls' = [calls EXCEPT ![c] = [r EXCEPT !.pc = "fetching"]]
                /\ UNCHANGED <<pendingResolve, pendingReject, isWaitingForPermission>>
    /\ UNCHANGED authStatus
    /\ NativeFrame

\* completion of fetchCurrentSSID for getCurrentWifiSSID (the closure is the
\* same on the direct path and on the delegate's path)
ssidFetched(c) ==
    /\ calls[c].pc = "fetching"
    /\ calls' = [calls EXCEPT ![c] =
            IF currentSSID # NoSSID THEN resolve(@, currentSSID)
                                    ELSE reject(@, "couldNotDetectSSID")]
    /\ UNCHANGED <<authStatus, pendingResolve, pendingReject, isWaitingForPermission>>
    /\ NativeFrame

\* ----- getCurrentWifiSSID, statement by statement ---------------------------
\* The module has no methodQueue, so its methods run on the module's own
\* serial queue, while the CLLocationManager made in init on the main thread
\* calls its delegate on the main thread: the three assignments that park a
\* request are not atomic with respect to the delegate.  The serial queue
\* runs one method body at a time.
\* pendingResolve = resolve (the status read before it was undetermined)
parkResolve(c) ==
    /\ Fresh(c)
    /\ \A d \in Calls : calls[d].park = "none"
    /\ authStatus = "notDetermined"
    /\ pendingResolve' = c
    /\ calls' = [calls EXCEPT ![c] =
            [Called("getCurrentWifiSSID") EXCEPT !.pc = "waitPerm",
                                                 !.park = "reject"]]
    /\ UNCHANGED <<authStatus, pendingReject, isWaitingForPermission>>
    /\ NativeFrame

\* pendingReject = reject
parkReject(c) ==
    /\ calls[c].park = "reject"
    /\ pendingReject' = c
    /\ calls' = [calls EXCEPT ![c].park = "waiting"]
    /\ UNCHANGED <<authStatus, pendingResolve, isWaitingForPermission>>
    /\ NativeFrame

\* isWaitingForPermission = true; requestWhenInUseAuthorization(); return
parkWaiting(c) ==
    /\ calls[c].park = "waiting"
    /\ isWaitingForPermission' = TRUE
    /\ calls' = [calls EXCEPT ![c].park = "none"]
    /\ UNCHANGED <<authStatus, pendingResolve, pendingReject>>
    /\ NativeFrame

\* ----- CLLocationManagerDelegate -----------------------------------------
\* locationManager(_:didChangeAuthorization:): the system reports `status`.
\* An undetermined status is reported only while nothing is decided (the
\* report that follows the creation of the location manager).
didChangeAuthorization(status) ==
    /\ status = "notDetermined" => authStatus = "notDetermined"
    /\ authStatus' = status
    /\ IF isWaitingForPermission /\ pendingResolve # NoCall /\ pendingReject # NoCall
       THEN /\ isWaitingForPermission' = FALSE
            /\ pendingResolve' = NoCall
            /\ pendingReject' = NoCall
            /\ calls' = IF status = "authorized"
                        THEN [calls EXCEPT ![pendingResolve].pc = "fetching"]
                        ELSE [calls EXCEPT ![pendingReject] =
                                    reject(@, "locationPermissionDenied")]
       ELSE UNCHANGED <<isWaitingForPermission, pendingResolve, pendingReject, calls>>
    /\ NativeFrame

\* ----- connect variants --------------------------------------------------
NativeQuiet == UNCHANGED <<authStatus, pendingResolve, pendingReject,
                           isWaitingForPermission>>

\* applyConfiguration: NEHotspotConfigurationManager.shared.apply is invoked
applyConfiguration(r, config, expectedSSID, isPrefix, ssidPrefix) ==
    [r EXCEPT !.pc = "applying", !.config = config, !.applied = @ + 1,
              !.expectedSSID = expectedSSID, !.isPrefix = isPrefix,
              !.ssidPrefix = ssidPrefix]

\* verifyConnection is entered with currentRetry: fetchCurrentSSID is issued
verifyConnection(r, maxRetries, currentRetry) ==
    [r EXCEPT !.pc = "verifying", !.maxRetries = maxRetries,
              !.currentRetry = currentRetry, !.fetches = @ + 1]

\* body of connectToProtectedSSIDOnce: the already-connected fetch is issued
exactOnce(c, op, ssid, passphrase, isWEP, joinOnce) ==
    /\ Fresh(c)
    /\ calls' = [calls EXCEPT ![c] =
            [Called(op) EXCEPT
                !.pc = "precheck", !.ssid = ssid, !.passphrase = passphrase,
                !.isWEP = isWEP, !.joinOnce = joinOnce]]
    /\ NativeQuiet
    /\ NativeFrame

\* body of connectToProtectedSSIDPrefixOnce: the configuration is applied
prefixOnce(c, op, ssidPrefix, passphrase, isWEP, joinOnce) ==
    /\ Fresh(c)
    /\ calls' = [calls EXCEPT ![c] =
            applyConfiguration(
                [Called(op) EXCEPT
                    !.ssid = ssidPrefix, !.passphrase = passphrase,
                    !.isWEP = isWEP, !.joinOnce = joinOnce],
                NEHotspotConfiguration("ssidPrefix", passphrase, isWEP, joinOnce),
                NoSSID, TRUE, ssidPrefix)]
    /\ NativeQuiet
    /\ NativeFrame

connectToProtectedSSIDOnce(c, ssid, passphrase, isWEP, joinOnce) ==
    exactOnce(c, "connectToProtectedSSIDOnce", ssid, passphrase, isWEP, joinOnce)

\* variant that asks for join-once
connectToProtectedSSID_joinsOnce(c, ssid, passphrase, isWEP, isHidden) ==
    exactOnce(c, "connectToProtectedSSID", ssid, passphrase, isWEP, TRUE)

connectToProtectedSSID(c, ssid, passphrase, isWEP, isHidden) ==
    exactOnce(c, "connectToProtectedSSID", ssid, passphrase, isWEP, FALSE)

connectToSSID(c, ssid) ==
    exactOnce(c, "connectToSSID", ssid, "", FALSE, FALSE)

\* params: hasSSID tells whether params["ssid"] is a string; an absent
\* password arrives as "" and an absent isWEP as false
connectToProtectedWifiSSID(c, hasSSID, ssid, password, isWEP) ==
    IF ~hasSSID
    THEN /\ Fresh(c)
         /\ calls' = [calls EXCEPT ![c] =
                reject(Called("connectToProtectedWifiSSID"), "invalidSSID")]
         /\ NativeQuiet
         /\ NativeFrame
    ELSE exactOnce(c, "connectToProtectedWifiSSID", ssid, password, isWEP, FALSE)

connectToProtectedSSIDPrefixOnce(c, ssidPrefix, passphrase, isWEP, joinOnce) ==
    prefixOnce(c, "connectToProtectedSSIDPrefixOnce", ssidPrefix, passphrase,
               isWEP, joinOnce)

connectToProtectedSSIDPrefix(c, ssidPrefix, passphrase, isWEP) ==
    prefixOnce(c, "connectToProtectedSSIDPrefix", ssidPrefix, passphrase,
               isWEP, FALSE)

\* connectToSSIDPrefix builds the open prefix configuration itself
connectToSSIDPrefix(c, ssidPrefix) ==
    /\ Fresh(c)
    /\ calls' = [calls EXCEPT ![c] =
            applyConfiguration(
                [Called("connectToSSIDPrefix") EXCEPT !.ssid = ssidPrefix],
                [kind |-> "ssidPrefix", security |-> "open", joinOnce |-> FALSE],
                NoSSID, TRUE, ssidPrefix)]
    /\ NativeQuiet
    /\ NativeFrame

\* completion of the fetch connectToProtectedSSIDOnce starts with
precheckFetched(c) ==
    /\ calls[c].pc = "precheck"
    /\ calls' = [calls EXCEPT ![c] =
            IF currentSSID = @.ssid
            THEN resolve(@, NoSSID)
            ELSE applyConfiguration(@,
                    NEHotspotConfiguration("ssid", @.passphrase, @.isWEP, @.joinOnce),
                    @.ssid, FALSE, NoSSID)]
    /\ NativeQuiet
    /\ NativeFrame

\* completion handler of NEHotspotConfigurationManager.shared.apply
applyCompleted(c, error) ==
    /\ calls[c].pc = "applying"
    /\ calls' = [calls EXCEPT ![c] =
            IF error # "none"
            THEN IF alreadyAssociated(error)
                 THEN resolve([@ EXCEPT !.applyError = error], NoSSID)
                 ELSE reject([@ EXCEPT !.applyError = error], parseError(error))
            ELSE verifyConnection(@, DefaultMaxRetries, 0)]
    /\ NativeQuiet
    /\ NativeFrame

\* completion of the fetch inside verifyConnection
verifyFetched(c) ==
    /\ calls[c].pc = "verifying"
    /\ calls' = [calls EXCEPT ![c] =
            IF isConnected(@.isPrefix, @.ssidPrefix, @.expectedSSID, currentSSID)
            THEN resolve([@ EXCEPT !.matchedAt = calls[c].fetches], NoSSID)
            ELSE IF retriesExhausted(@.currentRetry, @.maxRetries)
                 THEN reject(@, "unableToConnect")
                 ELSE [@ EXCEPT !.pc = "retryWait", !.timers = @ + 1]]
    /\ NativeQuiet
    /\ NativeFrame

\* variant that passes currentRetry on unchanged: the budget is never used up
retryTimerFired_sameRetry(c) ==
    /\ calls[c].pc = "retryWait"
    /\ calls' = [calls EXCEPT ![c] =
            verifyConnection(@, @.maxRetries, @.currentRetry)]
    /\ NativeQuiet
    /\ NativeFrame

\* the asyncAfter block runs: verifyConnection with currentRetry + 1
retryTimerFired(c) ==
    /\ calls[c].pc = "retryWait"
    /\ calls' = [calls EXCEPT ![c] =
            verifyConnection(@, @.maxRetries, @.currentRetry + 1)]
    /\ NativeQuiet
    /\ NativeFrame

disconnectFromSSID(c, ssid) ==
    /\ Fresh(c)
    /\ calls' = [calls EXCEPT ![c] =
            resolve([Called("disconnectFromSSID") EXCEPT !.ssid = ssid], NoSSID)]
    /\ NativeQuiet
    /\ NativeFrame

(***************************************************************************)
(* Specification of the JS wrapper: one caller, calls one after another;   *)
(* every native promise resolves or rejects as the adapter pleases.        *)
(***************************************************************************)
NativeInitIdle ==
    /\ pendingResolve = NoCall
    /\ pendingReject = NoCall
    /\ isWaitingForPermission = FALSE
    /\ calls = [c \in Calls |-> CallIdle]
    /\ verifyN = 0

WrapperInitIdle ==
    /\ isIoTNetworkBound = FALSE
    /\ adapterBound = FALSE
    /\ iot = [i \in IoTCalls |-> IoTIdle]

InitIoT ==
    /\ currentSSID \in SSIDs \cup {NoSSID}
    /\ authStatus = "authorized"
    /\ platform \in Platforms
    /\ version \in Versions
    /\ WrapperInitIdle
    /\ NativeInitIdle

\* the continuations of a call in progress: each awaited adapter promise
\* settles (ok: it resolved), and the settled call returns to its caller
IoTContinue(i) ==
    \/ \E ok \in BOOLEAN :
          \/ Src_afterRemove(i, ok)
          \/ Src_afterConnect(i, ok)
          \/ Src_afterBind(i, ok)
          \/ Src_afterVerify(i, ok)
          \/ Src_afterRollback(i, ok)
          \/ Src_afterUnbind(i, ok)
          \/ Src_afterDisconnect(i, ok)
          \/ P4_afterConnect(i, ok)
          \/ P4_afterBind(i, ok)
          \/ P4_afterVerify(i, ok)
          \/ P4_afterRollback(i, ok)
          \/ P4_afterUnbind(i, ok)
          \/ P4_afterDisconnect(i, ok)
          \/ P4_afterFetch(i, ok)
          \/ P4_afterRemoveConfig(i, ok)
    \/ IoTReturn(i)

IoTStep(i) ==
    \/ \E ssid \in Targets, password \in {"", "pw"}, usePrefix \in BOOLEAN :
          \/ Src_connectToIoTNetwork(i, ssid, password, usePrefix)
          \/ P4_connectToIoTNetwork(i, ssid, password, usePrefix)
    \/ Src_disconnectFromIoTNetwork(i)
    \/ P4_disconnectFromIoTNetwork(i)
    \/ IoTContinue(i)

NextIoT ==
    \/ IoTStep(1)
    \/ \E s \in SSIDs \cup {NoSSID} : NetworkChange(s)

SpecIoT == InitIoT /\ [][NextIoT]_vars

\* the identity the overlapping connect calls ask for
ConcTarget == <<"a">>

(***************************************************************************)
(* Specification of overlapping wrapper calls: both slots may be called     *)
(* while the other call is suspended at an await.                          *)
(***************************************************************************)
NextIoTConc ==
    \/ \E i \in IoTCalls :
          \/ \E usePrefix \in BOOLEAN :
                \/ Src_connectToIoTNetwork(i, ConcTarget, "pw", usePrefix)
                \/ P4_connectToIoTNetwork(i, ConcTarget, "pw", usePrefix)
          \/ Src_disconnectFromIoTNetwork(i)
          \/ P4_disconnectFromIoTNetwork(i)
          \/ IoTContinue(i)
    \/ \E s \in SSIDs \cup {NoSSID} : NetworkChange(s)

SpecIoTConc == InitIoT /\ [][NextIoTConc]_vars

(***************************************************************************)
(* Specification of the native module: one call, through any entry point   *)
(* and with any arguments, while the radio and the permission change.      *)
(***************************************************************************)
InitNative ==
    /\ currentSSID \in SSIDs \cup {NoSSID}
    /\ authStatus \in AuthStatuses
    /\ platform = "ios"
    /\ version = "p4"
    /\ WrapperInitIdle
    /\ NativeInitIdle

Passphrases == {"", "pw"}

\* the steps every native specification shares
NativeStep(c) ==
    \/ getCurrentWifiSSID(c)
    \/ ssidFetched(c)
    \/ precheckFetched(c)
    \/ \E error \in ApplyErrors : applyCompleted(c, error)
    \/ verifyFetched(c)
    \/ retryTimerFired(c)

EnvStep ==
    \/ \E s \in SSIDs \cup {NoSSID} : NetworkChange(s)
    \/ \E status \in AuthStatuses : didChangeAuthorization(status)

Next ==
    \/ NativeStep(1)
    \/ \E ssid \in Targets : connectToSSID(1, ssid)
    \/ \E ssid \in Targets : connectToSSIDPrefix(1, ssid)
    \/ \E ssid \in Targets, pw \in Passphrases, isWEP \in BOOLEAN :
          \/ connectToProtectedSSIDPrefix(1, ssid, pw, isWEP)
          \/ \E isHidden \in BOOLEAN :
                connectToProtectedSSID(1, ssid, pw, isWEP, isHidden)
          \/ \E hasSSID \in BOOLEAN :
                connectToProtectedWifiSSID(1, hasSSID, ssid, pw, isWEP)
          \/ \E joinOnce \in BOOLEAN :
                \/ connectToProtectedSSIDOnce(1, ssid, pw, isWEP, joinOnce)
                \/ connectToProtectedSSIDPrefixOnce(1, ssid, pw, isWEP, joinOnce)
    \/ \E ssid \in Targets : disconnectFromSSID(1, ssid)
    \/ EnvStep

Spec == InitNative /\ [][Next]_vars

\* the completions the system owes a call in flight: every fetch calls its
\* completion handler, apply calls its completion handler and every
\* asyncAfter block runs
Completion(c) ==
    \/ ssidFetched(c)
    \/ precheckFetched(c)
    \/ \E error \in ApplyErrors : applyCompleted(c, error)
    \/ verifyFetched(c)
    \/ retryTimerFired(c)

\* Spec with these completions delivered
SpecFair == Spec /\ WF_vars(Completion(1))

(***************************************************************************)
(* Specification of overlapping native calls: every slot may be called     *)
(* while the others are in flight.                                         *)
(***************************************************************************)
NextConc ==
    \/ \E c \in Calls :
          \/ NativeStep(c)
          \/ connectToSSID(c, ConcTarget)
          \/ connectToSSIDPrefix(c, ConcTarget)
    \/ EnvStep

SpecConc == InitNative /\ [][NextConc]_vars

(***************************************************************************)
(* Specification of getCurrentWifiSSID against the delegate: the requests   *)
(* run on the method queue, statement by statement, while authorization    *)
(* reports arrive on the main thread.                                      *)
(***************************************************************************)
NextRace ==
    \/ \E c \in Calls :
          \/ authStatus # "notDetermined" /\ getCurrentWifiSSID(c)
          \/ parkResolve(c)
          \/ parkReject(c)
          \/ parkWaiting(c)
          \/ ssidFetched(c)
    \/ EnvStep

SpecRace == InitNative /\ [][NextRace]_vars

(***************************************************************************)
(* Specification of verifyConnection alone: maxRetries is drawn from       *)
(* 0..MaxN and the poll runs against a changing radio.                     *)
(***************************************************************************)
InitVerify ==
    /\ currentSSID \in SSIDs \cup {NoSSID}
    /\ authStatus = "authorized"
    /\ platform = "ios"
    /\ version = "p4"
    /\ WrapperInitIdle
    /\ pendingResolve = NoCall
    /\ pendingReject = NoCall
    /\ isWaitingForPermission = FALSE
    /\ calls = [c \in Calls |-> CallIdle]
    /\ verifyN \in 0..MaxN

\* verifyConnection(expectedSSID:isPrefix:ssidPrefix:maxRetries:...) is called
\* as applyConfiguration calls it, with maxRetries = verifyN
startVerify(c, ssid, isPrefix) ==
    /\ Fresh(c)
    /\ calls' = [calls EXCEPT ![c] =
            verifyConnection(
                [Called("verifyConnection") EXCEPT
                    !.ssid = ssid, !.isPrefix = isPrefix,
                    !.expectedSSID = IF isPrefix THEN NoSSID ELSE ssid,
                    !.ssidPrefix = IF isPrefix THEN ssid ELSE NoSSID],
                verifyN, 0)]
    /\ NativeQuiet
    /\ NativeFrame

NextVerify ==
    \/ \E ssid \in Targets, isPrefix \in BOOLEAN : startVerify(1, ssid, isPrefix)
    \/ verifyFetched(1)
    \/ retryTimerFired(1)
    \/ \E s \in SSIDs \cup {NoSSID} : NetworkChange(s)

SpecVerify == InitVerify /\ [][NextVerify]_vars

(***************************************************************************)
(* Properties                                                              *)
(***************************************************************************)

\* C1: on Android every settled connectToIoTNetwork call is in one of two
\* clean terminal states: resolved with the connection verified, or rejected
\* with traffic not bound (flag false and the adapter binding released).
C1_CleanTerminalState ==
    \A i \in IoTCalls :
        (platform = "android" /\ iot[i].op = "connect" /\ iot[i].pc = "settled")
        => \/ iot[i].outcome = "resolved" /\ iot[i].verified
           \/ iot[i].outcome = "rejected" /\ ~isIoTNetworkBound /\ ~adapterBound

\* C2: after connectToIoTNetwork rejected because verification found no
\* matching identity, isIoTNetworkBound() is false, also when the rollback
\* unbind itself rejected.
C2_FlagClearedAfterFailedVerification ==
    \A i \in IoTCalls :
        (iot[i].op = "connect" /\ iot[i].pc = "settled"
            /\ iot[i].outcome = "rejected" /\ iot[i].reason = "notConnected")
        => ~isIoTNetworkBound

\* the connect entry points, by match mode
ExactOps == {"connectToSSID", "connectToProtectedSSID",
             "connectToProtectedWifiSSID", "connectToProtectedSSIDOnce"}
PrefixOps == {"connectToSSIDPrefix", "connectToProtectedSSIDPrefix",
              "connectToProtectedSSIDPrefixOnce"}
ConnectOps == ExactOps \cup PrefixOps

\* call c is made in this step
IsCalled(c) == calls[c].pc = "idle" /\ calls'[c].pc # "idle"

\* C3 (as stated): with maxRetries = N a poll that never matches makes
\* exactly N fetches before it reports the timeout, and a poll whose first
\* match is the k-th fetch has k <= N and makes exactly k fetches.
C3_ExactlyNFetches ==
    \A c \in Calls :
        (calls[c].op = "verifyConnection" /\ calls[c].pc = "done")
        => IF calls[c].rejects = 1
           THEN calls[c].fetches = calls[c].maxRetries
           ELSE /\ calls[c].matchedAt = calls[c].fetches
                /\ calls[c].fetches <= calls[c].maxRetries

\* C3 (amended): with maxRetries = N a poll that never matches makes exactly
\* N + 1 fetches (the first one and N retries, N timers) and then reports the
\* timeout; a poll whose first match is the k-th fetch has k <= N + 1, makes
\* exactly k fetches and k - 1 timers, and nothing is scheduled after it.
C3_InitialFetchPlusNRetries ==
    \A c \in Calls :
        calls[c].op = "verifyConnection"
        => /\ calls[c].pc = "done" => calls[c].resolves + calls[c].rejects = 1
           /\ (calls[c].pc = "done" /\ calls[c].rejects = 1)
                => /\ calls[c].fetches = calls[c].maxRetries + 1
                   /\ calls[c].timers = calls[c].maxRetries
                   /\ calls[c].matchedAt = 0
           /\ (calls[c].pc = "done" /\ calls[c].resolves = 1)
                => /\ calls[c].matchedAt = calls[c].fetches
                   /\ calls[c].fetches >= 1
                   /\ calls[c].fetches <= calls[c].maxRetries + 1
                   /\ calls[c].timers = calls[c].fetches - 1

\* a poll with maxRetries = 2 ran out after three fetches
C3_Witness ==
    \E c \in Calls :
        /\ calls[c].op = "verifyConnection" /\ calls[c].pc = "done"
        /\ calls[c].rejects = 1 /\ calls[c].maxRetries = 2
        /\ calls[c].fetches = 3

\* C4: at most one connection attempt is in flight at any time.
C4_SingleAttemptInFlight ==
    Cardinality({c \in Calls : InFlight(calls[c])}) <= 1

\* C5: a connect call, exact or prefix, made while the current identity
\* already matches the target under the variant's match mode never invokes
\* NEHotspotConfigurationManager.apply.
C5_AlreadyConnectedSkipsApply ==
    [][\A c \in Calls :
         (/\ IsCalled(c)
          /\ calls'[c].op \in ConnectOps
          /\ calls'[c].ssid # NoSSID
          /\ isConnected(calls'[c].op \in PrefixOps,
                         calls'[c].ssid, calls'[c].ssid, currentSSID))
         => calls'[c].applied = 0]_vars

\* C6 (as stated): an attempt whose apply reported "already associated"
\* succeeds through verification: the poll ran and a fetch matched.
C6_AlreadyAssociatedVerifies ==
    \A c \in Calls :
        calls[c].applyError = "alreadyAssociated"
        => /\ calls[c].rejects = 0
           /\ calls[c].resolves = 1 => (calls[c].fetches >= 1 /\ calls[c].matchedAt >= 1)

\* C6 (amended): an attempt whose apply reported "already associated" never
\* ends in failure: it is resolved at once by the apply handler, without the
\* identity poll (no fetch, no retry timer, no match observed).
C6_AlreadyAssociatedResolvesAtOnce ==
    \A c \in Calls :
        calls[c].applyError = "alreadyAssociated"
        => /\ calls[c].pc = "done"
           /\ calls[c].resolves = 1 /\ calls[c].rejects = 0
           /\ calls[c].fetches = 0 /\ calls[c].timers = 0 /\ calls[c].matchedAt = 0

\* a prefix attempt was answered "already associated"
C6_Witness ==
    \E c \in Calls :
        /\ calls[c].op \in PrefixOps /\ calls[c].applied = 1
        /\ calls[c].applyError = "alreadyAssociated" /\ calls[c].pc = "done"

\* C7: a connect call whose configuration was accepted and whose poll ran
\* out without a match rejects with the timeout code and no other.
C7_TimeoutKind ==
    \A c \in Calls :
        (/\ calls[c].op \in ConnectOps /\ calls[c].pc = "done"
         /\ calls[c].rejects >= 1 /\ calls[c].fetches >= 1)
        => calls[c].code = "timeoutOccurred"

\* C8: every call's promise is settled exactly once: never twice, and the
\* blocks of a call that waits for the permission decision are still held
\* by the module (so that the decision can settle it).
C8_SettledExactlyOnce ==
    \A c \in Calls :
        /\ calls[c].resolves + calls[c].rejects <= 1
        /\ calls[c].pc = "done" => calls[c].resolves + calls[c].rejects = 1
        /\ calls[c].pc = "waitPerm" => (pendingResolve = c /\ pendingReject = c)

\* C9: a connect call made while the location permission is denied fails
\* with locationPermissionDenied and never applies the configuration.
C9_DeniedNeverApplies ==
    [][\A c \in Calls :
         (/\ IsCalled(c)
          /\ authStatus = "denied"
          /\ calls'[c].op \in ConnectOps
          /\ calls'[c].ssid # NoSSID)
         => /\ calls'[c].applied = 0
            /\ calls'[c].pc = "done" => calls'[c].code = "locationPermissionDenied"]_vars

\* C10: the outcome of a request that waits for the permission decision
\* follows the decision delivered: denied rejects with
\* locationPermissionDenied, restricted with locationPermissionRestricted,
\* and granted moves the request on to fetch the identity.
C10_OutcomeFollowsDecision ==
    [][\A c \in Calls :
         (calls[c].pc = "waitPerm" /\ calls'[c].pc # "waitPerm")
         => CASE authStatus' = "denied" ->
                    calls'[c].pc = "done" /\ calls'[c].code = "locationPermissionDenied"
              [] authStatus' = "restricted" ->
                    calls'[c].pc = "done" /\ calls'[c].code = "locationPermissionRestricted"
              [] authStatus' = "authorized" -> calls'[c].pc = "fetching"
              [] OTHER -> TRUE]_vars

\* ----- C11 ---------------------------------------------------------------
\* C11: a getCurrentWifiSSID request that waits for the permission stays
\* pending until an actual decision is reported: a step after which the
\* permission is still undetermined leaves the waiting call waiting, with its
\* pending callbacks kept and nothing settled.
C11_UndeterminedKeepsPending ==
    [][\A c \in Calls :
          (calls[c].pc = "waitPerm" /\ authStatus' = "notDetermined")
              => /\ calls'[c].pc = "waitPerm"
                 /\ calls'[c].resolves + calls'[c].rejects = 0
                 /\ isWaitingForPermission' = isWaitingForPermission
                 /\ pendingResolve' = pendingResolve]_vars

\* ----- C12 ---------------------------------------------------------------
\* C12: getCurrentWifiSSID called when the permission is already decided:
\* denied rejects with locationPermissionDenied and restricted rejects with
\* locationPermissionRestricted, both in the call itself, with no identity
\* fetch started; authorized starts the fetch, whose completion resolves
\* with the current identity when there is one and rejects with
\* couldNotDetectSSID when there is none.
C12_DecidedPermission ==
    [][\A c \in Calls :
          /\ (IsCalled(c) /\ calls'[c].op = "getCurrentWifiSSID")
                => /\ authStatus = "denied"
                        => /\ calls'[c].pc = "done"
                           /\ calls'[c].rejects = 1 /\ calls'[c].resolves = 0
                           /\ calls'[c].code = "locationPermissionDenied"
                   /\ authStatus = "restricted"
                        => /\ calls'[c].pc = "done"
                           /\ calls'[c].rejects = 1 /\ calls'[c].resolves = 0
                           /\ calls'[c].code = "locationPermissionRestricted"
                   /\ authStatus = "authorized"
                        => /\ calls'[c].pc = "fetching"
                           /\ calls'[c].rejects = 0 /\ calls'[c].resolves = 0
          /\ (calls[c].op = "getCurrentWifiSSID" /\ calls[c].pc = "fetching"
                /\ calls'[c].pc # "fetching")
                => /\ calls'[c].pc = "done"
                   /\ IF currentSSID # NoSSID
                      THEN /\ calls'[c].resolves = calls[c].resolves + 1
                           /\ calls'[c].rejects = calls[c].rejects
                           /\ calls'[c].value = currentSSID
                      ELSE /\ calls'[c].rejects = calls[c].rejects + 1
                           /\ calls'[c].resolves = calls[c].resolves
                           /\ calls'[c].code = "couldNotDetectSSID"]_vars

\* a request made under a restricted permission was rejected as restricted
C12_Witness ==
    \E c \in Calls :
        /\ calls[c].op = "getCurrentWifiSSID"
        /\ calls[c].pc = "done"
        /\ authStatus = "restricted"
        /\ calls[c].code = "locationPermissionRestricted"

\* ----- C13 ---------------------------------------------------------------
\* C13: binding and unbinding are idempotent in the wrapper: while
\* isIoTNetworkBound is true no step of a call issues an adapter bind call,
\* and while it is false no step (of disconnectFromIoTNetwork or of the
\* failure rollback) issues an adapter unbind call.
C13_BindUnbindIdempotent ==
    [][\A i \in IoTCalls :
          /\ isIoTNetworkBound => iot'[i].bindCalls <= iot[i].bindCalls
          /\ ~isIoTNetworkBound => iot'[i].unbindCalls <= iot[i].unbindCalls]_vars

\* ----- C14 ---------------------------------------------------------------
\* C14: in connectToIoTNetwork the adapter bind call is issued only after
\* the verification has observed the match: a call that issued a bind call
\* has verified the connection, so a call whose verification failed (or has
\* not run yet) has issued none and has bound nothing.
C14_BindOnlyAfterMatch ==
    \A i \in IoTCalls :
        (iot[i].op = "connect" /\ (iot[i].bindCalls > 0 \/ iot[i].bindOk))
            => iot[i].verified

\* ----- C15 ---------------------------------------------------------------
\* C15: a failure of the bind call of connectToIoTNetwork is not fatal: the
\* rejected bind changes neither the flag nor the adapter's binding and the
\* call goes on to verify; when the identity then read is a connected one
\* the call resolves; and a call that started unbound and whose bind failed
\* leaves isIoTNetworkBound false.
C15_BindFailureNotFatal ==
    [][\A i \in IoTCalls :
          /\ (iot[i].pc = "bind" /\ iot'[i].pc # "bind" /\ ~iot'[i].bindOk)
                => /\ iot'[i].pc = "verify"
                   /\ isIoTNetworkBound' = isIoTNetworkBound
                   /\ adapterBound' = adapterBound
          /\ (iot[i].pc = "verify" /\ iot[i].bindCalls = 1 /\ ~iot[i].bindOk
                /\ iot'[i].pc # "verify" /\ iot'[i].reason # "verifyError"
                /\ IoTConnected(iot[i].usePrefix, currentSSID, iot[i].ssid))
                => /\ iot'[i].pc = "settled"
                   /\ iot'[i].outcome = "resolved"
                   /\ isIoTNetworkBound' = isIoTNetworkBound
          /\ (iot[i].op = "connect" /\ iot[i].bindCalls = 1 /\ ~iot[i].bindOk
                /\ ~iot[i].boundAtCall)
                => ~isIoTNetworkBound]_vars

\* a connect whose bind call failed resolved, and the flag is false
C15_Witness ==
    \E i \in IoTCalls :
        /\ iot[i].op = "connect" /\ iot[i].pc = "settled"
        /\ iot[i].outcome = "resolved" /\ iot[i].verified
        /\ iot[i].bindCalls = 1 /\ ~iot[i].bindOk
        /\ ~isIoTNetworkBound

\* ----- C16 ---------------------------------------------------------------
\* C16: identity matching follows the match mode in the wrapper's
\* verification as it does in the native poll: a connection verified in
\* exact mode has an identity equal to the target, and one verified in
\* prefix mode has a present identity that starts with the target,
\* case-insensitively.
C16_MatchFollowsMode ==
    \A i \in IoTCalls :
        (iot[i].op = "connect" /\ iot[i].verified)
            => IF iot[i].usePrefix
               THEN /\ iot[i].got # NoSSID
                    /\ hasPrefix(lowercased(iot[i].got), lowercased(iot[i].ssid))
               ELSE iot[i].got = iot[i].ssid

\* ----- C17 ---------------------------------------------------------------
\* C17: during verification an absent identity is a no-match and not an
\* error: on iOS, a connectToIoTNetwork call that verifies while no
\* identity is reported is not failed with the error of the identity read.
C17_AbsentIdentityIsNoMatch ==
    [][\A i \in IoTCalls :
          (platform = "ios" /\ iot[i].op = "connect" /\ iot[i].pc = "verify"
             /\ currentSSID = NoSSID /\ iot'[i].pc # "verify")
              => iot'[i].reason # "verifyError"]_vars

\* ----- C18 ---------------------------------------------------------------
\* C18: disconnecting never fails the caller: a settled
\* disconnectFromIoTNetwork call has resolved, whatever its adapter calls
\* did, and after it isIoTNetworkBound is false; a settled native
\* disconnectFromSSID call has resolved.
C18_DisconnectNeverFails ==
    /\ \A i \in IoTCalls :
          (iot[i].op = "disconnect" /\ iot[i].pc = "settled")
              => /\ iot[i].outcome = "resolved"
                 /\ ~isIoTNetworkBound
    /\ \A c \in Calls :
          (calls[c].op = "disconnectFromSSID" /\ calls[c].pc = "done")
              => calls[c].resolves = 1 /\ calls[c].rejects = 0

\* ----- C19 ---------------------------------------------------------------
\* C19: when applying the configuration fails with an error other than
\* already-associated, connectToIoTNetwork rejects with the translated
\* kind, has made no adapter bind call and no adapter unbind call, and
\* isIoTNetworkBound is what it was before the call.
C19_ApplyFailureLeavesBinding ==
    \A i \in IoTCalls :
        (iot[i].op = "connect" /\ iot[i].applyError # "none")
            => /\ iot[i].pc = "settled"
               /\ iot[i].outcome = "rejected"
               /\ iot[i].code = parseError(iot[i].applyError)
               /\ iot[i].bindCalls = 0 /\ ~iot[i].bindOk
               /\ iot[i].unbindCalls = 0 /\ ~iot[i].unbindOk
               /\ isIoTNetworkBound = iot[i].boundAtCall

\* a connect made while bound was rejected by a refused apply and the flag
\* is still true
C19_Witness ==
    \E i \in IoTCalls :
        /\ iot[i].op = "connect" /\ iot[i].pc = "settled"
        /\ iot[i].applyError = "userDenied" /\ iot[i].code = "userDenied"
        /\ iot[i].boundAtCall /\ isIoTNetworkBound

\* ----- C20 ---------------------------------------------------------------
\* C20 as stated: every adapter error an apply completes with is translated
\* once and reaches the caller as a rejection: invalid, invalidSSID,
\* invalidSSIDPrefix and userDenied under their own kinds, an invalid WPA or
\* WEP passphrase as invalidPassphrase, every other error as unableToConnect.
C20_EveryErrorRejected ==
    \A c \in Calls :
        (calls[c].op \in ConnectOps /\ calls[c].applyError # "none")
            => /\ calls[c].pc = "done"
               /\ calls[c].rejects = 1 /\ calls[c].resolves = 0
               /\ calls[c].applyError \in {"invalid", "invalidSSID",
                                           "invalidSSIDPrefix", "userDenied"}
                    => calls[c].code = calls[c].applyError
               /\ calls[c].applyError \in {"invalidWPAPassphrase",
                                           "invalidWEPPassphrase"}
                    => calls[c].code = "invalidPassphrase"
               /\ calls[c].applyError \notin {"invalid", "invalidSSID",
                        "invalidSSIDPrefix", "userDenied",
                        "invalidWPAPassphrase", "invalidWEPPassphrase"}
                    => calls[c].code = "unableToConnect"

\* C20 amended: the same, for every adapter error except already-associated,
\* which alone is not translated and reaches the caller as success.
C20_EveryErrorButAssociatedRejected ==
    \A c \in Calls :
        /\ (calls[c].op \in ConnectOps
              /\ calls[c].applyError \notin {"none", "alreadyAssociated"})
            => /\ calls[c].pc = "done"
               /\ calls[c].rejects = 1 /\ calls[c].resolves = 0
               /\ calls[c].applyError \in {"invalid", "invalidSSID",
                                           "invalidSSIDPrefix", "userDenied"}
                    => calls[c].code = calls[c].applyError
               /\ calls[c].applyError \in {"invalidWPAPassphrase",
                                           "invalidWEPPassphrase"}
                    => calls[c].code = "invalidPassphrase"
               /\ calls[c].applyError \notin {"invalid", "invalidSSID",
                        "invalidSSIDPrefix", "userDenied",
                        "invalidWPAPassphrase", "invalidWEPPassphrase"}
                    => calls[c].code = "unableToConnect"
        /\ (calls[c].op \in ConnectOps /\ calls[c].applyError = "alreadyAssociated")
            => /\ calls[c].pc = "done"
               /\ calls[c].resolves = 1 /\ calls[c].rejects = 0
               /\ calls[c].code = "none"

\* an apply refused for an invalid WEP passphrase was rejected as
\* invalidPassphrase
C20_Witness ==
    \E c \in Calls :
        /\ calls[c].op \in ConnectOps /\ calls[c].pc = "done"
        /\ calls[c].applyError = "invalidWEPPassphrase"
        /\ calls[c].code = "invalidPassphrase"
        /\ calls[c].rejects = 1

C22_RollbackNeverBlocksReport ==
    [][\A i \in IoTCalls :
          /\ (iot[i].pc = "rollback" /\ iot'[i] # iot[i])
                => /\ iot'[i].pc = "settled"
                   /\ iot'[i].outcome = "rejected"
                   /\ iot'[i].reason = "notConnected"
          /\ (iot'[i].op = "connect" /\ iot'[i].pc = "settled"
                /\ iot'[i].unbindCalls > 0)
                => /\ iot'[i].outcome = "rejected"
                   /\ iot'[i].reason = "notConnected"]_vars

\* a connect call whose rollback unbind rejected reported the connection
\* failure
C22_Witness ==
    \E i \in IoTCalls :
        /\ iot[i].op = "connect" /\ iot[i].pc = "settled"
        /\ iot[i].unbindCalls = 1 /\ ~iot[i].unbindOk
        /\ adapterBound
        /\ iot[i].outcome = "rejected" /\ iot[i].reason = "notConnected"

\* ----- C23 ---------------------------------------------------------------
\* C23: in every connect variant, exact and prefix, the configuration that
\* is applied is an open one when the passphrase is empty, whatever isWEP
\* says, and a protected one carrying the given isWEP flag (WEP or WPA) when
\* the passphrase is not empty.
C23_EmptyPassphraseIsOpen ==
    \A c \in Calls :
        (calls[c].op \in ConnectOps /\ calls[c].applied > 0)
            => /\ calls[c].config.kind = IF calls[c].op \in PrefixOps
                                         THEN "ssidPrefix" ELSE "ssid"
               /\ calls[c].passphrase = "" => calls[c].config.security = "open"
               /\ calls[c].passphrase # ""
                    => calls[c].config.security =
                            IF calls[c].isWEP THEN "WEP" ELSE "WPA"

\* a prefix connect with an empty passphrase and isWEP set applied an open
\* configuration
C23_Witness ==
    \E c \in Calls :
        /\ calls[c].op = "connectToProtectedSSIDPrefixOnce"
        /\ calls[c].applied = 1
        /\ calls[c].passphrase = "" /\ calls[c].isWEP
        /\ calls[c].config.security = "open"

\* ----- C24 ---------------------------------------------------------------
\* C24: a connect request that names neither an exact identity nor a prefix
\* is rejected with the invalid kind before any configuration is applied.
\* (Every native connect method takes one identity or one prefix, so naming
\* both is not expressible; naming neither is connectToProtectedWifiSSID
\* with params that hold no ssid.)
C24_NoTargetIsInvalid ==
    \A c \in Calls :
        (calls[c].op \in ConnectOps /\ calls[c].ssid = NoSSID)
            => /\ calls[c].pc = "done"
               /\ calls[c].applied = 0
               /\ calls[c].rejects = 1 /\ calls[c].resolves = 0
               /\ calls[c].code = "invalid"

\* ----- C26 ---------------------------------------------------------------
\* C26: join-once is off unless it is asked for: the configuration applied
\* by connectToSSID, connectToSSIDPrefix, connectToProtectedSSID,
\* connectToProtectedSSIDPrefix and connectToProtectedWifiSSID has
\* joinOnce = false, and the one applied by the two ...Once variants has the
\* joinOnce value the caller passed.
C26_JoinOnceOnlyOnRequest ==
    \A c \in Calls :
        (calls[c].op \in ConnectOps /\ calls[c].applied > 0)
            => IF calls[c].op \in {"connectToProtectedSSIDOnce",
                                   "connectToProtectedSSIDPrefixOnce"}
               THEN calls[c].config.joinOnce = calls[c].joinOnce
               ELSE ~calls[c].config.joinOnce /\ ~calls[c].joinOnce

\* a ...Once call asked for join-once and applied a join-once configuration
C26_Witness ==
    \E c \in Calls :
        /\ calls[c].op = "connectToProtectedSSIDOnce"
        /\ calls[c].applied = 1
        /\ calls[c].joinOnce /\ calls[c].config.joinOnce

\* ----- C27 ---------------------------------------------------------------
\* C27: on Android disconnectFromIoTNetwork unbinds before it disconnects:
\* called while isIoTNetworkBound is true it issues the unbind call first,
\* and the adapter disconnect call is issued only when that unbind has
\* settled, resolved or rejected alike; called while the flag is false it
\* issues the disconnect call at once.
C27_UnbindBeforeDisconnect ==
    [][\A i \in IoTCalls :
          /\ (platform = "android" /\ iot[i].pc = "idle"
                /\ iot'[i].op = "disconnect")
                => IF isIoTNetworkBound
                   THEN iot'[i].pc = "dunbind" /\ iot'[i].unbindCalls = 1
                   ELSE iot'[i].pc = "ddisconnect" /\ iot'[i].unbindCalls = 0
          /\ (iot[i].op = "disconnect" /\ iot[i].pc = "dunbind"
                /\ iot'[i] # iot[i])
                => /\ iot'[i].pc = "ddisconnect"
                   /\ iot'[i].unbindCalls = 1
          /\ (iot[i].op = "disconnect" /\ iot'[i].pc = "settled"
                /\ iot[i].pc # "settled" /\ platform = "android")
                => iot[i].pc = "ddisconnect"]_vars

\* the disconnect call is issued after the unbind call rejected
C27_Witness ==
    \E i \in IoTCalls :
        /\ platform = "android"
        /\ iot[i].op = "disconnect" /\ iot[i].pc = "ddisconnect"
        /\ iot[i].unbindCalls = 1 /\ ~iot[i].unbindOk
        /\ adapterBound

\* ----- C28 ---------------------------------------------------------------
\* C28: on a platform other than Android no call of connectToIoTNetwork or
\* disconnectFromIoTNetwork issues an adapter bind or unbind call, and
\* isIoTNetworkBound stays false throughout.
C28_NoBindingOffAndroid ==
    platform # "android"
        => /\ ~isIoTNetworkBound
           /\ ~adapterBound
           /\ \A i \in IoTCalls :
                 iot[i].bindCalls = 0 /\ iot[i].unbindCalls = 0

\* ----- C29 ---------------------------------------------------------------
\* C29: on Android, whenever no wrapper call is in progress the flag behind
\* isIoTNetworkBound() agrees with the adapter's binding (bound exactly when
\* the last forceWifiUsageWithOptions call that resolved was a bind); in
\* particular the flag is not false while the adapter is still bound.
C29_FlagAgreesWithAdapter ==
    (platform = "android"
        /\ \A i \in IoTCalls : iot[i].pc \in {"idle", "settled"})
        => isIoTNetworkBound = adapterBound

\* ----- C30 ---------------------------------------------------------------
\* C30: under any interleaving of overlapping connectToIoTNetwork and
\* disconnectFromIoTNetwork calls, a connectToIoTNetwork call that resolves
\* on Android after its own bind call resolved finds, in the step in which
\* it resolves, isIoTNetworkBound true and the adapter still bound.
C30_ResolvedCallStillBound ==
    [][\A i \in IoTCalls :
          (platform = "android" /\ iot[i].op = "connect" /\ iot[i].bindOk
             /\ iot[i].pc # "settled" /\ iot'[i].pc = "settled"
             /\ iot'[i].outcome = "resolved")
              => isIoTNetworkBound' /\ adapterBound']_vars

\* ----- C31 ---------------------------------------------------------------
\* C31: every code getCurrentWifiSSID rejects with is one of the values
\* exported in GET_CURRENT_WIFI_SSID_ERRORS, and every code a connect method
\* rejects with is one of the values exported in CONNECT_ERRORS.
C31_ExportedCodesCoverRejections ==
    \A c \in Calls :
        calls[c].rejects > 0
            => /\ calls[c].op = "getCurrentWifiSSID"
                    => calls[c].code \in GET_CURRENT_WIFI_SSID_ERRORS
               /\ calls[c].op \in ConnectOps
                    => calls[c].code \in CONNECT_ERRORS

\* ----- C32 ---------------------------------------------------------------
\* C32: in the native module, whenever no getCurrentWifiSSID body is in the
\* middle of its assignments, isWaitingForPermission is true exactly when
\* both pendingResolve and pendingReject are set, and the two belong to the
\* same request.
C32_WaitingIffBothPending ==
    (\A c \in Calls : calls[c].park = "none")
        => /\ isWaitingForPermission
                <=> (pendingResolve # NoCall /\ pendingReject # NoCall)
           /\ pendingResolve = pendingReject

====
